---- MODULE Spec2Model ----
(***************************************************************************)
(* tui-revolt: the event aggregator (src/util/event.rs) that merges the    *)
(* keyboard, tick and network producers into one unbounded mpsc queue, and *)
(* the application state machine (update in src/lib.rs) that consumes it.  *)
(***************************************************************************)
EXTENDS Integers, Sequences, FiniteSets, TLC

\* ------------------------------------------------------------- bounds
\* events the three sources deliver in a run, all together
MaxEvents == 3
\* the same, in the runs the liveness properties are checked on
MaxFairEvents == 2
\* the same, in the runs of a caller that shuts the aggregator down early
MaxLibEvents == 2
\* the same, in the runs that record the keys taken while editing
MaxKeys == 5
\* events waiting in the queue at once (the channel itself is unbounded)
MaxQueue == 2
\* channels a server lists
MaxServerChannels == 3

\* ------------------------------------------------------------- values
None == <<"None">>
Some(v) == <<"Some", v>>

\* termion::event::Key, the variants update distinguishes
Char(c) == <<"Char", c>>
Backspace == <<"Backspace">>
Esc == <<"Esc">>
Left == <<"Left">>
Chars == {"e", "q", "\n"}
Keys == {Char(c) : c \in Chars} \cup {Backspace, Esc, Left}

ChannelIds == {"c1", "c2"}
Contents == {"hello", "x"}
Authors == {"u1"}
ServerLists == {<<>>, <<"s1">>}

\* ServerToClientEvent: Message, Ready, and one of the variants update ignores
MessageEvent(m) == [type |-> "Message", message |-> m]
ReadyEvent(s) == [type |-> "Ready", servers |-> s]
PongEvent == [type |-> "Pong"]
Messages == [channel : ChannelIds, author : Authors, content : Contents]
ServerToClientEvent ==
    {MessageEvent(m) : m \in Messages} \cup {ReadyEvent(s) : s \in ServerLists} \cup {PongEvent}

\* Event<Key>; n is the position of the event among those its producer pushed
Input(k, n) == [src |-> "input", n |-> n, key |-> k]
RobespierreEvent(e, n) == [src |-> "net", n |-> n, ev |-> e]
Tick(n) == [src |-> "tick", n |-> n]

Producers == {"input", "tick", "net"}

VARIABLES
    \* Events
    queue,          \* the unbounded mpsc channel (tx -> rx)
    rxAlive,        \* the UnboundedReceiver has not been dropped
    inputPc,        \* spawn_blocking keyboard loop
    tickPc,         \* tick task
    netPc,          \* network task
    netEvent,       \* the network task's local `event`
    cache,          \* server events committed to the shared Cache
    aborted,        \* abort_tasks has been called
    pushed,         \* per producer: events sent into the queue
    budget,         \* events the sources will still deliver in this run
    delivered,      \* per producer: n of the last event next() returned
    \* AppState
    input,
    input_mode,
    messages,
    server_list,
    current_channel,
    server,
    server_channels,
    \* main loop and update
    mainPc,
    pending,        \* update's local `message` across the identity lookup
    sent,           \* send_message requests issued to the transport
    action,         \* what the last completed update returned
    \* history
    eos,            \* next() has returned None (end of stream)
    slept,          \* sleeps the tick task has completed
    typed,          \* the keys update has taken in Editing mode, in the runs that record them
    \* AppState::new
    startup

evVars == <<queue, rxAlive, inputPc, tickPc, netPc, netEvent, cache, aborted, pushed, budget>>
appVars == <<input, input_mode, messages, server_list, current_channel, server, server_channels>>
ctxVars == <<current_channel, server, server_channels>>
histVars == <<eos, slept, typed, startup>>
vars == <<evVars, appVars, delivered, mainPc, pending, sent, action, histVars>>

\* ------------------------------------------------------------- AppState::new
ServerIds == {"s1"}
\* Server::channels as the API returns it
ChannelLists == UNION {[1..n -> ChannelIds] : n \in 0..MaxServerChannels}

\* the Channel and the Server a successful fetch returns; srv is Channel::server_id(),
\* an Option
Channel(id, srv) == [id |-> id, server |-> srv]
Server(id, chans) == [id |-> id, channels |-> chans]
FetchChannel(id) == <<"channel", id>>
FetchServer(id) == <<"server", id>>
\* one fetch as the log of AppState::new keeps it: the request and whether it succeeded
Fetched(req, ok) == [req |-> req, ok |-> ok]
\* no AppState has been constructed
NoState == <<"NoState">>

\* the locals of AppState::new (None until they are bound) once it has returned Ok for
\* channel c1 of server s1
Returned ==
    [pc |-> "ok",
     open_at |-> "c1",
     fetches |-> <<Fetched(FetchChannel("c1"), TRUE), Fetched(FetchServer("s1"), TRUE),
                   Fetched(FetchChannel("c1"), TRUE), Fetched(FetchChannel("c2"), TRUE)>>,
     next |-> 3,
     current_channel |-> Some(Channel("c1", Some("s1"))),
     server |-> Some(Server("s1", <<"c1", "c2">>)),
     server_channels |-> <<Channel("c1", Some("s1")), Channel("c2", Some("s1"))>>]

\* ------------------------------------------------------------- Init
\* Events::with_config has spawned the three tasks
Spawned(events) ==
    /\ budget = events
    /\ queue = <<>>
    /\ rxAlive = TRUE
    /\ inputPc = "read"
    /\ tickPc = "send"
    /\ netPc = "connect"
    /\ netEvent = None
    /\ cache = {}
    /\ aborted = FALSE
    /\ pushed = [p \in Producers |-> 0]
    /\ delivered = [p \in Producers |-> 0]
    /\ eos = FALSE
    /\ slept = 0

\* Events::with_config has spawned the three tasks; AppState::new has returned Ok
Started(events) ==
    /\ Spawned(events)
    /\ startup = Returned
    /\ input = <<>>
    /\ input_mode = "Normal"
    /\ messages = <<>>
    /\ server_list = None
    /\ current_channel = Returned.current_channel[2]
    /\ server = Returned.server[2]
    /\ server_channels = Returned.server_channels
    /\ mainPc = "loop"
    /\ pending = None
    /\ sent = <<>>
    /\ action = "None"

Init == Started(MaxEvents) /\ typed = None

\* the process has neither exited nor died of a panic
ProcessAlive == mainPc \notin {"exited", "panicked", "failed"}

\* ------------------------------------------------------------- the queue
\* faulty variant: a LIFO send
PushFront(q, e) == <<e>> \o q
\* UnboundedSender::send: FIFO append
Push(q, e) == Append(q, e)
\* faulty variant: recv that leaves the head in the queue
PopKeeps(q) == q
\* UnboundedReceiver::recv: the head leaves the queue
Pop(q) == Tail(q)

\* the explored runs keep at most MaxQueue events waiting
Room == Len(queue) < MaxQueue

\* one more event of producer p is in the queue
Count(f, p) == [f EXCEPT ![p] = @ + 1]

\* ------------------------------------------------------------- keyboard producer
\* stdin.keys() yields Ok(key): tx.send(Event::Input(key)), return if the send fails
InputKey(k) ==
    /\ ProcessAlive
    /\ inputPc = "read"
    /\ IF rxAlive
          THEN /\ budget > 0
               /\ Room
               /\ queue' = Push(queue, Input(k, pushed["input"] + 1))
               /\ pushed' = Count(pushed, "input")
               /\ budget' = budget - 1
               /\ UNCHANGED inputPc
          ELSE /\ inputPc' = "done"
               /\ UNCHANGED <<queue, pushed, budget>>
    /\ UNCHANGED <<rxAlive, tickPc, netPc, netEvent, cache, aborted>>
    /\ UNCHANGED <<appVars, delivered, mainPc, pending, sent, action>>
    /\ UNCHANGED histVars

\* stdin.keys() yields Err: `if let Ok(key)` skips it, nothing is pushed
InputErr ==
    /\ ProcessAlive
    /\ inputPc = "read"
    /\ UNCHANGED <<queue, rxAlive, inputPc, tickPc, netPc, netEvent, cache, aborted, pushed, budget>>
    /\ UNCHANGED <<appVars, delivered, mainPc, pending, sent, action>>
    /\ UNCHANGED histVars

\* stdin.keys() ends: the for loop and the closure return
InputEof ==
    /\ ProcessAlive
    /\ inputPc = "read"
    /\ inputPc' = "done"
    /\ UNCHANGED <<queue, rxAlive, tickPc, netPc, netEvent, cache, aborted, pushed, budget>>
    /\ UNCHANGED <<appVars, delivered, mainPc, pending, sent, action>>
    /\ UNCHANGED histVars

\* ------------------------------------------------------------- tick producer
\* faulty variant: the send is not followed by the sleep
TickSendNoSleep ==
    /\ ProcessAlive
    /\ tickPc = "send"
    /\ IF rxAlive
          THEN /\ budget > 0
               /\ Room
               /\ queue' = Push(queue, Tick(pushed["tick"] + 1))
               /\ pushed' = Count(pushed, "tick")
               /\ budget' = budget - 1
               /\ tickPc' = "send"
          ELSE /\ tickPc' = "done"
               /\ UNCHANGED <<queue, pushed, budget>>
    /\ UNCHANGED <<rxAlive, inputPc, netPc, netEvent, cache, aborted>>
    /\ UNCHANGED <<appVars, delivered, mainPc, pending, sent, action>>
    /\ UNCHANGED histVars

\* loop head: tx.send(Event::Tick), break if the send fails
TickSend ==
    /\ ProcessAlive
    /\ tickPc = "send"
    /\ IF rxAlive
          THEN /\ budget > 0
               /\ Room
               /\ queue' = Push(queue, Tick(pushed["tick"] + 1))
               /\ pushed' = Count(pushed, "tick")
               /\ budget' = budget - 1
               /\ tickPc' = "sleep"
          ELSE /\ tickPc' = "done"
               /\ UNCHANGED <<queue, pushed, budget>>
    /\ UNCHANGED <<rxAlive, inputPc, netPc, netEvent, cache, aborted>>
    /\ UNCHANGED <<appVars, delivered, mainPc, pending, sent, action>>
    /\ UNCHANGED histVars

\* tokio::time::sleep(tick_rate).await completes
TickWake ==
    /\ ProcessAlive
    /\ tickPc = "sleep"
    /\ ~aborted
    /\ tickPc' = "send"
    /\ slept' = slept + 1
    /\ UNCHANGED <<queue, rxAlive, inputPc, netPc, netEvent, cache, aborted, pushed, budget>>
    /\ UNCHANGED <<appVars, delivered, mainPc, pending, sent, action>>
    /\ UNCHANGED <<eos, typed, startup>>

\* tick_handle.abort() takes effect at the task's await point
TickCancel ==
    /\ ProcessAlive
    /\ aborted
    /\ tickPc = "sleep"
    /\ tickPc' = "done"
    /\ UNCHANGED <<queue, rxAlive, inputPc, netPc, netEvent, cache, aborted, pushed, budget>>
    /\ UNCHANGED <<appVars, delivered, mainPc, pending, sent, action>>
    /\ UNCHANGED histVars

\* ------------------------------------------------------------- network producer
\* Connection::connect(&auth).await: Ok(conn), or Err and the task returns
NetConnect(ok) ==
    /\ ProcessAlive
    /\ netPc = "connect"
    /\ netPc' = IF ok THEN "recv" ELSE "done"
    /\ UNCHANGED <<queue, rxAlive, inputPc, tickPc, netEvent, cache, aborted, pushed, budget>>
    /\ UNCHANGED <<appVars, delivered, mainPc, pending, sent, action>>
    /\ UNCHANGED histVars

\* connection.next().await returns Ok(ev)
NetRecv(e) ==
    /\ ProcessAlive
    /\ netPc = "recv"
    /\ budget > 0
    /\ budget' = budget - 1
    /\ netEvent' = Some(e)
    /\ netPc' = "commit"
    /\ UNCHANGED <<queue, rxAlive, inputPc, tickPc, cache, aborted, pushed>>
    /\ UNCHANGED <<appVars, delivered, mainPc, pending, sent, action>>
    /\ UNCHANGED histVars

\* faulty variant: a disconnect that also ends the tick task
NetRecvErrStopsAll ==
    /\ ProcessAlive
    /\ netPc = "recv"
    /\ netPc' = "done"
    /\ tickPc' = "done"
    /\ UNCHANGED <<queue, rxAlive, inputPc, netEvent, cache, aborted, pushed, budget>>
    /\ UNCHANGED <<appVars, delivered, mainPc, pending, sent, action>>
    /\ UNCHANGED histVars

\* connection.next().await returns Err: break
NetRecvErr ==
    /\ ProcessAlive
    /\ netPc = "recv"
    /\ netPc' = "done"
    /\ UNCHANGED <<queue, rxAlive, inputPc, tickPc, netEvent, cache, aborted, pushed, budget>>
    /\ UNCHANGED <<appVars, delivered, mainPc, pending, sent, action>>
    /\ UNCHANGED histVars

\* faulty variant: the event is forwarded without the commit
NetCommitSkipped ==
    /\ ProcessAlive
    /\ netPc = "commit"
    /\ netPc' = "send"
    /\ UNCHANGED <<queue, rxAlive, inputPc, tickPc, netEvent, cache, aborted, pushed, budget>>
    /\ UNCHANGED <<appVars, delivered, mainPc, pending, sent, action>>
    /\ UNCHANGED histVars

\* event.commit_to_cache_ref(&cache).await
NetCommit ==
    /\ ProcessAlive
    /\ netPc = "commit"
    /\ cache' = cache \cup {netEvent[2]}
    /\ netPc' = "send"
    /\ UNCHANGED <<queue, rxAlive, inputPc, tickPc, netEvent, aborted, pushed, budget>>
    /\ UNCHANGED <<appVars, delivered, mainPc, pending, sent, action>>
    /\ UNCHANGED histVars

\* tx.send(Event::RobespierreEvent(event)), break if the send fails
NetSend ==
    /\ ProcessAlive
    /\ netPc = "send"
    /\ IF rxAlive
          THEN /\ Room
               /\ queue' = Push(queue, RobespierreEvent(netEvent[2], pushed["net"] + 1))
               /\ pushed' = Count(pushed, "net")
               /\ netPc' = "recv"
          ELSE /\ netPc' = "done"
               /\ UNCHANGED <<queue, pushed>>
    /\ netEvent' = None
    /\ UNCHANGED <<rxAlive, inputPc, tickPc, cache, aborted, budget>>
    /\ UNCHANGED <<appVars, delivered, mainPc, pending, sent, action>>
    /\ UNCHANGED histVars

\* robespierre_event_handle.abort() takes effect at one of the task's await points
NetCancel ==
    /\ ProcessAlive
    /\ aborted
    /\ netPc \in {"connect", "recv", "commit"}
    /\ netPc' = "done"
    /\ netEvent' = None
    /\ UNCHANGED <<queue, rxAlive, inputPc, tickPc, cache, aborted, pushed, budget>>
    /\ UNCHANGED <<appVars, delivered, mainPc, pending, sent, action>>
    /\ UNCHANGED histVars

\* every UnboundedSender clone has been dropped: the three tasks are over
AnySenderDropped == inputPc = "done" \/ tickPc = "done" \/ netPc = "done"
AllSendersDropped == inputPc = "done" /\ tickPc = "done" /\ netPc = "done"

\* ------------------------------------------------------------- update
\* MessageExt::author_user_opt_member, when it resolves
UserOptMember(m) == [user |-> m.author]

\* faulty variant: the buffer is cloned, not taken
MemTakeKeeps(str) == str
\* what std::mem::take(input) leaves in input
MemTake(str) == <<>>

\* faulty variant: insert at the front
VecPushFront(v, x) == <<x>> \o v
\* Vec::push
VecPush(v, x) == Append(v, x)

\* faulty variant: no channel test
AcceptsAnyMessage(m) == TRUE
\* the test `current.id() == message.channel`
AcceptsMessage(m) == current_channel.id = m.channel

\* faulty variants: Ready extends the old list; an empty Ready clears the list
ReadyMerged(old, servers) == IF old = None THEN Some(servers) ELSE Some(old[2] \o servers)
ReadyEmptyIsNone(old, servers) == IF servers = <<>> THEN None ELSE Some(servers)
\* the value `*server_list = Some(event.servers)` stores over old
ReadyServerList(old, servers) == Some(servers)

\* faulty variant: Backspace on an empty string leaves a marker character
StrPopUnderflow(str) == IF str = <<>> THEN <<"?">> ELSE SubSeq(str, 1, Len(str) - 1)
\* String::pop
StrPop(str) == IF str = <<>> THEN <<>> ELSE SubSeq(str, 1, Len(str) - 1)

\* faulty variant: every character but 'q' starts editing
UpdateNormalAnyChar(k) ==
    /\ input_mode' = IF k[1] = "Char" /\ k # Char("q") THEN "Editing" ELSE input_mode
    /\ IF k = Char("q")
          THEN action' = "Break" /\ mainPc' = "break"
          ELSE action' = "None" /\ mainPc' = mainPc
    /\ UNCHANGED <<input, messages, server_list, pending, sent>>

\* Event::Input(input_key), InputMode::Normal
UpdateNormal(k) ==
    /\ input_mode' = IF k = Char("e") THEN "Editing" ELSE input_mode
    /\ IF k = Char("q")
          THEN action' = "Break" /\ mainPc' = "break"
          ELSE action' = "None" /\ mainPc' = mainPc
    /\ UNCHANGED <<input, messages, server_list, pending, sent>>

\* faulty variant: Esc discards the text typed so far
UpdateEditingEscClears(k) ==
    IF k = Char("\n")
       THEN /\ input' = MemTake(input)
            /\ sent' = Append(sent, [channel |-> current_channel.id, content |-> input])
            /\ mainPc' = "send_await"
            /\ UNCHANGED <<input_mode, messages, server_list, pending, action>>
       ELSE /\ input' = CASE k[1] = "Char" -> Append(input, k[2])
                          [] k = Backspace -> StrPop(input)
                          [] k = Esc -> <<>>
                          [] OTHER -> input
            /\ input_mode' = IF k = Esc THEN "Normal" ELSE input_mode
            /\ action' = "None"
            /\ UNCHANGED <<messages, server_list, pending, sent, mainPc>>

\* faulty variant: 'q' ends the loop while editing too
UpdateEditingQuits(k) ==
    IF k = Char("q")
       THEN /\ action' = "Break"
            /\ mainPc' = "break"
            /\ UNCHANGED <<input, input_mode, messages, server_list, pending, sent>>
       ELSE /\ input' = CASE k[1] = "Char" -> Append(input, k[2])
                          [] k = Backspace -> StrPop(input)
                          [] OTHER -> input
            /\ input_mode' = IF k = Esc THEN "Normal" ELSE input_mode
            /\ action' = "None"
            /\ UNCHANGED <<messages, server_list, pending, sent, mainPc>>

\* Event::Input(input_key), InputMode::Editing
UpdateEditing(k) ==
    IF k = Char("\n")
       THEN \* std::mem::take(input), then send_message(..).await
            /\ input' = MemTake(input)
            /\ sent' = Append(sent, [channel |-> current_channel.id, content |-> input])
            /\ mainPc' = "send_await"
            /\ UNCHANGED <<input_mode, messages, server_list, pending, action>>
       ELSE /\ input' = CASE k[1] = "Char" -> Append(input, k[2])
                          [] k = Backspace -> StrPop(input)
                          [] OTHER -> input
            /\ input_mode' = IF k = Esc THEN "Normal" ELSE input_mode
            /\ action' = "None"
            /\ UNCHANGED <<messages, server_list, pending, sent, mainPc>>

\* Event::RobespierreEvent(ev), either mode
UpdateServerEvent(ev) ==
    CASE ev.type = "Message" ->
            IF AcceptsMessage(ev.message)
               THEN \* message.author_user_opt_member(ctx).await
                    /\ pending' = Some(ev.message)
                    /\ mainPc' = "resolve_await"
                    /\ UNCHANGED <<input, input_mode, messages, server_list, sent, action>>
               ELSE /\ action' = "None"
                    /\ UNCHANGED <<input, input_mode, messages, server_list, pending, sent, mainPc>>
      [] ev.type = "Ready" ->
            /\ server_list' = ReadyServerList(server_list, ev.servers)
            /\ action' = "None"
            /\ UNCHANGED <<input, input_mode, messages, pending, sent, mainPc>>
      [] OTHER ->
            /\ action' = "None"
            /\ UNCHANGED <<input, input_mode, messages, server_list, pending, sent, mainPc>>

\* faulty variant: a Tick ends editing
UpdateTickLeavesEditing ==
    /\ action' = "None"
    /\ input_mode' = "Normal"
    /\ UNCHANGED <<input, messages, server_list, pending, sent, mainPc>>

\* Event::Tick
UpdateTick ==
    /\ action' = "None"
    /\ UNCHANGED <<input, input_mode, messages, server_list, pending, sent, mainPc>>

\* the record of the keys update has taken in Editing mode, where the run keeps one
Typed(ev) ==
    IF typed # None /\ ev.src = "input" /\ input_mode = "Editing"
       THEN Some(Append(typed[2], ev.key))
       ELSE typed

\* faulty variant: end of stream ends the loop
UpdateBreaksAtEndOfStream ==
    /\ mainPc = "loop"
    /\ IF queue # <<>>
          THEN LET ev == Head(queue) IN
                  /\ queue' = Pop(queue)
                  /\ delivered' = [delivered EXCEPT ![ev.src] = ev.n]
                  /\ typed' = Typed(ev)
                  /\ UNCHANGED eos
                  /\ CASE ev.src = "input" ->
                            IF input_mode = "Normal"
                               THEN UpdateNormal(ev.key)
                               ELSE UpdateEditing(ev.key)
                       [] ev.src = "net" -> UpdateServerEvent(ev.ev)
                       [] OTHER -> UpdateTick
          ELSE /\ AllSendersDropped
               /\ action' = "Break"
               /\ mainPc' = "break"
               /\ eos' = TRUE
               /\ UNCHANGED <<queue, delivered, input, input_mode, messages, server_list>>
               /\ UNCHANGED <<pending, sent, typed>>
    /\ UNCHANGED <<rxAlive, inputPc, tickPc, netPc, netEvent, cache, aborted, pushed, budget>>
    /\ UNCHANGED <<ctxVars, slept, startup>>

\* update: events.next().await returns Some(ev) when an event waits, None when the queue
\* is empty and every sender is gone, and does not return otherwise; then the match on ev
Update ==
    /\ mainPc = "loop"
    /\ IF queue # <<>>
          THEN LET ev == Head(queue) IN
                  /\ queue' = Pop(queue)
                  /\ delivered' = [delivered EXCEPT ![ev.src] = ev.n]
                  /\ typed' = Typed(ev)
                  /\ UNCHANGED eos
                  /\ CASE ev.src = "input" ->
                            IF input_mode = "Normal"
                               THEN UpdateNormal(ev.key)
                               ELSE UpdateEditing(ev.key)
                       [] ev.src = "net" -> UpdateServerEvent(ev.ev)
                       [] OTHER -> UpdateTick
          ELSE /\ AllSendersDropped
               /\ action' = "None"
               /\ eos' = TRUE
               /\ UNCHANGED <<queue, delivered, input, input_mode, messages, server_list>>
               /\ UNCHANGED <<pending, sent, mainPc, typed>>
    /\ UNCHANGED <<rxAlive, inputPc, tickPc, netPc, netEvent, cache, aborted, pushed, budget>>
    /\ UNCHANGED <<ctxVars, slept, startup>>

\* terminal.draw(..)? returns Err at the head of the loop: main_impl returns the error and
\* drops events without abort_tasks
DrawErr ==
    /\ mainPc = "loop"
    /\ mainPc' = "failed"
    /\ rxAlive' = FALSE
    /\ queue' = <<>>
    /\ UNCHANGED <<inputPc, tickPc, netPc, netEvent, cache, aborted, pushed, budget>>
    /\ UNCHANGED <<appVars, delivered, pending, sent, action>>
    /\ UNCHANGED histVars

\* send_message(..).await completes; `let _ =` discards the Result; update returns Action::None
SendMessageReturn ==
    /\ mainPc = "send_await"
    /\ mainPc' = "loop"
    /\ action' = "None"
    /\ UNCHANGED <<evVars, appVars, delivered, pending, sent>>
    /\ UNCHANGED histVars

\* author_user_opt_member(ctx).await completes: Ok pushes (message, identity), Err panics in unwrap
ResolveReturn(ok) ==
    /\ mainPc = "resolve_await"
    /\ IF ok
          THEN /\ messages' = VecPush(messages, <<pending[2], UserOptMember(pending[2])>>)
               /\ mainPc' = "loop"
               /\ action' = "None"
          ELSE /\ mainPc' = "panicked"
               /\ UNCHANGED <<messages, action>>
    /\ pending' = None
    /\ UNCHANGED <<evVars, input, input_mode, server_list, ctxVars, delivered, sent>>
    /\ UNCHANGED histVars

\* ------------------------------------------------------------- main, after the loop
\* events.abort_tasks()
AbortTasks ==
    /\ mainPc = "break"
    /\ aborted' = TRUE
    /\ mainPc' = "aborted"
    /\ UNCHANGED <<queue, rxAlive, inputPc, tickPc, netPc, netEvent, cache, pushed, budget>>
    /\ UNCHANGED <<appVars, delivered, pending, sent, action>>
    /\ UNCHANGED histVars

\* main_impl returns Ok(()): events is dropped, and the receiver with what it still holds
ReturnOk ==
    /\ mainPc = "aborted"
    /\ rxAlive' = FALSE
    /\ queue' = <<>>
    /\ mainPc' = "returned"
    /\ UNCHANGED <<inputPc, tickPc, netPc, netEvent, cache, aborted, pushed, budget>>
    /\ UNCHANGED <<appVars, delivered, pending, sent, action>>
    /\ UNCHANGED histVars

\* rt.shutdown_background() and main returns: the process exits
Exit ==
    /\ mainPc = "returned"
    /\ mainPc' = "exited"
    /\ UNCHANGED <<evVars, appVars, delivered, pending, sent, action>>
    /\ UNCHANGED histVars

Next ==
    \/ \E k \in Keys : InputKey(k)
    \/ InputErr
    \/ InputEof
    \/ TickSend
    \/ TickWake
    \/ TickCancel
    \/ \E ok \in BOOLEAN : NetConnect(ok)
    \/ \E e \in ServerToClientEvent : NetRecv(e)
    \/ NetRecvErr
    \/ NetCommit
    \/ NetSend
    \/ NetCancel
    \/ DrawErr
    \/ Update
    \/ SendMessageReturn
    \/ \E ok \in BOOLEAN : ResolveReturn(ok)
    \/ AbortTasks
    \/ ReturnOk
    \/ Exit

Spec == Init /\ [][Next]_vars

\* the runtime runs the tick task and fires its timer, the consumer keeps calling
\* next(), and the collaborators' calls it awaits complete
FairInit == Started(MaxFairEvents) /\ typed = None

FairSpec ==
    /\ FairInit
    /\ [][Next]_vars
    /\ WF_vars(TickSend)
    /\ WF_vars(TickWake)
    /\ WF_vars(Update)
    /\ WF_vars(SendMessageReturn)
    /\ WF_vars(\E ok \in BOOLEAN : ResolveReturn(ok))

\* ------------------------------------------------------------- keyboard and tick alone
\* the runs in which the network task has not connected yet, so that only the keyboard
\* and the tick task deliver events, with the keys taken in Editing mode recorded
KeyInit == Started(MaxKeys) /\ typed = Some(<<>>)

KeyNext ==
    \/ \E k \in Keys : InputKey(k)
    \/ InputEof
    \/ TickSend
    \/ TickWake
    \/ Update
    \/ SendMessageReturn

KeySpec == KeyInit /\ [][KeyNext]_vars

\* ------------------------------------------------------------- AppState::new, step by step
\* main_impl has called Events::with_config and calls AppState::new(cache, http, open_at)
StartupInit ==
    /\ Spawned(0)
    /\ typed = None
    /\ startup \in {[pc |-> "channel", open_at |-> c, fetches |-> <<>>, next |-> 1,
                      current_channel |-> None, server |-> None, server_channels |-> <<>>]
                     : c \in ChannelIds}
    /\ input = NoState
    /\ input_mode = NoState
    /\ messages = NoState
    /\ server_list = NoState
    /\ current_channel = NoState
    /\ server = NoState
    /\ server_channels = NoState
    /\ mainPc = "new"
    /\ pending = None
    /\ sent = <<>>
    /\ action = "None"

\* channel_id.channel(&ctx).await?, then the match on current_channel.server_id():
\* None runs into todo!()
NewChannel(ok, srv) ==
    /\ startup.pc = "channel"
    /\ LET log == Append(startup.fetches, Fetched(FetchChannel(startup.open_at), ok)) IN
          startup' = IF ok
                        THEN [startup EXCEPT !.fetches = log,
                                             !.current_channel = Some(Channel(startup.open_at, srv)),
                                             !.pc = IF srv = None THEN "todo" ELSE "server"]
                        ELSE [startup EXCEPT !.fetches = log, !.pc = "err"]
    /\ mainPc' = IF ok /\ srv = None THEN "panicked" ELSE mainPc
    /\ UNCHANGED <<evVars, appVars, delivered, pending, sent, action, eos, slept, typed>>

\* server_id.server(&ctx).await?
NewServer(ok, chans) ==
    /\ startup.pc = "server"
    /\ LET id == startup.current_channel[2].server[2]
           log == Append(startup.fetches, Fetched(FetchServer(id), ok))
       IN  startup' = IF ok
                         THEN [startup EXCEPT !.fetches = log,
                                              !.server = Some(Server(id, chans)),
                                              !.pc = "channels"]
                         ELSE [startup EXCEPT !.fetches = log, !.pc = "err"]
    /\ UNCHANGED <<evVars, appVars, delivered, mainPc, pending, sent, action, eos, slept, typed>>

\* faulty variant: a listed channel that cannot be fetched is left out
NewServerChannelSkips(ok) ==
    /\ startup.pc = "channels"
    /\ startup.next <= Len(startup.server[2].channels)
    /\ LET ch == startup.server[2].channels[startup.next]
           log == Append(startup.fetches, Fetched(FetchChannel(ch), ok))
       IN  startup' = IF ok
                         THEN [startup EXCEPT !.fetches = log,
                                              !.next = @ + 1,
                                              !.server_channels =
                                                  VecPush(@, Channel(ch, Some(startup.server[2].id)))]
                         ELSE [startup EXCEPT !.fetches = log, !.next = @ + 1]
    /\ UNCHANGED <<evVars, appVars, delivered, mainPc, pending, sent, action, eos, slept, typed>>

\* one turn of `for ch in server.channels.iter()`:
\* server_channels.push(ch.channel(&ctx).await?)
NewServerChannel(ok) ==
    /\ startup.pc = "channels"
    /\ startup.next <= Len(startup.server[2].channels)
    /\ LET ch == startup.server[2].channels[startup.next]
           log == Append(startup.fetches, Fetched(FetchChannel(ch), ok))
       IN  startup' = IF ok
                         THEN [startup EXCEPT !.fetches = log,
                                              !.next = @ + 1,
                                              !.server_channels =
                                                  VecPush(@, Channel(ch, Some(startup.server[2].id)))]
                         ELSE [startup EXCEPT !.fetches = log, !.pc = "err"]
    /\ UNCHANGED <<evVars, appVars, delivered, mainPc, pending, sent, action, eos, slept, typed>>

\* the loop is over: AppStateInternal::ServerChannel {..} and Ok(Self {..})
NewOk ==
    /\ startup.pc = "channels"
    /\ startup.next > Len(startup.server[2].channels)
    /\ startup' = [startup EXCEPT !.pc = "ok"]
    /\ input' = <<>>
    /\ input_mode' = "Normal"
    /\ messages' = <<>>
    /\ current_channel' = startup.current_channel[2]
    /\ server' = startup.server[2]
    /\ server_channels' = startup.server_channels
    /\ server_list' = None
    /\ mainPc' = "loop"
    /\ UNCHANGED <<evVars, delivered, pending, sent, action, eos, slept, typed>>

StartupNext ==
    \/ \E ok \in BOOLEAN, srv \in {Some(id) : id \in ServerIds} \cup {None} : NewChannel(ok, srv)
    \/ \E ok \in BOOLEAN, chans \in ChannelLists : NewServer(ok, chans)
    \/ \E ok \in BOOLEAN : NewServerChannel(ok)
    \/ NewOk

StartupSpec == StartupInit /\ [][StartupNext]_vars

\* a caller of the library other than main: events.abort_tasks() while it goes on
\* calling update
AbortEarly ==
    /\ mainPc = "loop"
    /\ ~aborted
    /\ aborted' = TRUE
    /\ UNCHANGED <<queue, rxAlive, inputPc, tickPc, netPc, netEvent, cache, pushed, budget>>
    /\ UNCHANGED <<appVars, delivered, mainPc, pending, sent, action>>
    /\ UNCHANGED histVars

LibNext ==
    \/ Next
    \/ AbortEarly

LibInit == Started(MaxLibEvents) /\ typed = None

LibSpec == LibInit /\ [][LibNext]_vars

\* ------------------------------------------------------------- properties
\* this step is update taking ev from next()
Consumed(ev) ==
    /\ mainPc = "loop"
    /\ queue # <<>>
    /\ ev = Head(queue)
    /\ Len(queue') = Len(queue) - 1
    /\ mainPc' # "failed"

\* this step is update taking a key in the given mode
ConsumedKey(mode, k) ==
    /\ Consumed(Head(queue))
    /\ Head(queue).src = "input"
    /\ Head(queue).key = k
    /\ input_mode = mode

\* this step is update taking a server event
ConsumedServerEvent(e) ==
    /\ Consumed(Head(queue))
    /\ Head(queue).src = "net"
    /\ Head(queue).ev = e

\* C1: in Normal mode 'e' only switches the mode to Editing, 'q' only returns Break, and
\* every other key leaves the mode, input buffer, message log, server list and channel
\* context unchanged, issues no request and returns None
C1_NormalOnlyEQ ==
    [][\A k \in Keys : ConsumedKey("Normal", k) =>
          /\ UNCHANGED <<input, messages, server_list, ctxVars, sent>>
          /\ input_mode' = IF k = Char("e") THEN "Editing" ELSE "Normal"
          /\ action' = IF k = Char("q") THEN "Break" ELSE "None"
          /\ (k # Char("q") => mainPc' = "loop")]_vars

\* one key was taken in Normal mode, it was neither 'e' nor 'q', and update returned None
C1_Witness ==
    /\ delivered["input"] = 1
    /\ input_mode = "Normal"
    /\ mainPc = "loop"
    /\ action = "None"

\* C2: Enter in Editing mode empties the input buffer, issues exactly one send_message
\* request to the current channel with the buffer's content, and leaves the mode Editing;
\* no other step issues a request
C2_EnterSendsBuffer ==
    [][/\ ConsumedKey("Editing", Char("\n")) =>
             /\ input' = <<>>
             /\ sent' = Append(sent, [channel |-> current_channel.id, content |-> input])
             /\ input_mode' = "Editing"
       /\ sent' # sent => ConsumedKey("Editing", Char("\n"))]_vars

\* the buffer "q" was submitted: one request with that content, the buffer is empty
C2_Witness ==
    /\ input = <<>>
    /\ input_mode = "Editing"
    /\ sent = <<[channel |-> current_channel.id, content |-> <<"q">>]>>

\* C3: a Message of another channel leaves the message log unchanged in either mode and
\* is not kept for later: update returns at once and the log only ever holds messages of
\* the current channel
C3_OtherChannelDropped ==
    /\ [][\A m \in Messages :
            (ConsumedServerEvent(MessageEvent(m)) /\ m.channel # current_channel.id) =>
                /\ UNCHANGED <<messages, pending>>
                /\ mainPc' = "loop"
                /\ action' = "None"]_vars
    /\ [](\A i \in DOMAIN messages : messages[i][1].channel = current_channel.id)

\* the only server event ever received was a Message of another channel; it was taken in
\* Editing mode and the log is still empty
C3_Witness ==
    /\ \E m \in Messages : m.channel # current_channel.id /\ cache = {MessageEvent(m)}
    /\ delivered["net"] = 1
    /\ input_mode = "Editing"
    /\ messages = <<>>
    /\ mainPc = "loop"

\* C4: a Message of the current channel whose author resolves is appended to the log,
\* paired with the resolved identity: the log grows by exactly one entry at its end and
\* the earlier entries keep their place
C4_CurrentChannelAppended ==
    [][/\ \A m \in Messages :
            (ConsumedServerEvent(MessageEvent(m)) /\ m.channel = current_channel.id) =>
                /\ pending' = Some(m)
                /\ mainPc' = "resolve_await"
                /\ UNCHANGED messages
       /\ (mainPc = "resolve_await" /\ mainPc' = "loop") =>
                /\ Len(messages') = Len(messages) + 1
                /\ messages'[Len(messages')] = <<pending[2], UserOptMember(pending[2])>>
                /\ SubSeq(messages', 1, Len(messages)) = messages
                /\ action' = "None"
       /\ messages' # messages => (mainPc = "resolve_await" /\ mainPc' = "loop")]_vars

\* two different messages of the current channel are in the log
C4_Witness ==
    /\ Len(messages) = 2
    /\ messages[1][1].content # messages[2][1].content
    /\ mainPc = "loop"

\* C5: Ready sets server_list to Some(the event's servers) whatever it held before
C5_ReadyReplaces ==
    [][\A s \in ServerLists :
          ConsumedServerEvent(ReadyEvent(s)) => server_list' = Some(s)]_vars

\* a Ready with servers and then a Ready with none were taken; the list is Some(empty)
C5_Witness ==
    /\ cache = {ReadyEvent(<<"s1">>), ReadyEvent(<<>>)}
    /\ delivered["net"] = 2
    /\ server_list = Some(<<>>)

\* C6: server_list starts None, changes only when a Ready is taken, and once Some never
\* becomes None again
C6_ServerListOneWay ==
    /\ server_list = None
    /\ [][server_list' # server_list =>
             \E s \in ServerLists : ConsumedServerEvent(ReadyEvent(s))]_vars
    /\ [][server_list # None => server_list' # None]_vars

\* three server events were taken, Ready with servers and ignored ones; the list is Some
C6_Witness ==
    /\ server_list = Some(<<"s1">>)
    /\ delivered["net"] = 3
    /\ cache = {ReadyEvent(<<"s1">>), PongEvent}
    /\ mainPc = "loop"

\* the render/update loop is over: nobody calls next() any more
ConsumerStopped == mainPc \in {"break", "aborted", "returned", "exited", "panicked", "failed"}

\* the events of producer p waiting in the queue, oldest first
Waiting(p) == SelectSeq(queue, LAMBDA e : e.src = p)

\* C7: next() returns each producer's events in the order that producer pushed them:
\* an event it returns was pushed after every event of the same producer returned before,
\* and in the queue a producer's events wait in push order, whatever lies between them
C7_PerProducerOrder ==
    /\ [][\A p \in Producers :
            (Consumed(Head(queue)) /\ Head(queue).src = p) =>
                /\ Head(queue).n > delivered[p]
                /\ delivered'[p] = Head(queue).n]_vars
    /\ [](\A i, j \in DOMAIN queue :
            (i < j /\ queue[i].src = queue[j].src) => queue[i].n < queue[j].n)

\* the first key was returned; the second waits behind a server event pushed between them
C7_Witness ==
    /\ delivered["input"] = 1
    /\ Len(queue) = 2
    /\ queue[1].src = "net"
    /\ queue[2].src = "input"
    /\ queue[2].n = 2
    /\ mainPc = "loop"

\* C8: before shutdown every pushed event is either already returned or waiting, once:
\* a producer's waiting events are exactly those numbered delivered+1 .. pushed, next()
\* returns the next one of them, and while the consumer keeps calling next() every pushed
\* event is eventually returned
C8_ExactlyOnce ==
    /\ [](rxAlive => \A p \in Producers :
            /\ Len(Waiting(p)) = pushed[p] - delivered[p]
            /\ \A i \in DOMAIN Waiting(p) : Waiting(p)[i].n = delivered[p] + i)
    /\ [][\A p \in Producers :
            (Consumed(Head(queue)) /\ Head(queue).src = p) =>
                delivered'[p] = delivered[p] + 1]_vars
    /\ \A p \in Producers : \A n \in 1..MaxFairEvents :
            (pushed[p] >= n) ~> (delivered[p] >= n \/ ConsumerStopped)

\* a key and a server event were pushed and both were returned
C8_Witness ==
    /\ \A p \in {"input", "net"} : pushed[p] = 1 /\ delivered[p] = 1
    /\ queue = <<>>
    /\ mainPc = "loop"

\* C9: a server event is in the cache before it is in the queue: every ServerEvent that
\* waits in the queue, is about to be sent, or is being handled by update, is committed
C9_CommitBeforePush ==
    /\ \A i \in DOMAIN queue : queue[i].src = "net" => queue[i].ev \in cache
    /\ netPc = "send" => netEvent[2] \in cache
    /\ pending # None => MessageEvent(pending[2]) \in cache

\* next() has returned one server event and another one waits in the queue
C9_Witness ==
    /\ delivered["net"] = 1
    /\ Len(queue) >= 1
    /\ Head(queue).src = "net"
    /\ Cardinality(cache) = 2

\* C10: the step in which the network task fails, or the keyboard loop ends, changes
\* nothing else: the other producers, the queue and the main loop are as before; the tick
\* task is never over before shutdown; and with the other two producers over, a further
\* Tick is still pushed and returned to the consumer
C10_FailureIsLocal ==
    /\ [][(netPc # "done" /\ netPc' = "done" /\ ~aborted /\ rxAlive) =>
            UNCHANGED <<inputPc, tickPc, queue, rxAlive, aborted, mainPc, appVars>>]_vars
    /\ [][(inputPc # "done" /\ inputPc' = "done" /\ rxAlive) =>
            UNCHANGED <<netPc, tickPc, queue, rxAlive, aborted, mainPc, appVars>>]_vars
    /\ []((rxAlive /\ ~aborted) => tickPc # "done")
    /\ \A n \in 0..(MaxFairEvents - 1) :
            (netPc = "done" /\ inputPc = "done" /\ pushed["tick"] = n /\ budget > 0)
            ~> (delivered["tick"] > n \/ ConsumerStopped)

\* network and keyboard are over without having pushed anything; two Ticks were
\* returned and the loop still runs
C10_Witness ==
    /\ netPc = "done"
    /\ inputPc = "done"
    /\ pushed["net"] = 0
    /\ pushed["input"] = 0
    /\ delivered["tick"] = 2
    /\ mainPc = "loop"

\* C11: next() returns None only when the keyboard, tick and network producers have all
\* terminated and the queue is empty; with an event in the queue it returns the head, also
\* after the producers have terminated; with an empty queue and a producer alive it blocks
C11_EndOfStreamOnlyWhenDrained ==
    /\ [](eos => inputPc = "done" /\ tickPc = "done" /\ netPc = "done" /\ queue = <<>>)
    /\ [][(~eos /\ eos') =>
            inputPc = "done" /\ tickPc = "done" /\ netPc = "done" /\ queue = <<>>]_vars
    /\ []((mainPc = "loop" /\ queue # <<>>) => ENABLED Update)
    /\ [][Consumed(Head(queue)) =>
            /\ queue' = Tail(queue)
            /\ delivered'[Head(queue).src] = Head(queue).n
            /\ eos' = eos]_vars
    /\ []((mainPc = "loop" /\ queue = <<>>
              /\ ~(inputPc = "done" /\ tickPc = "done" /\ netPc = "done"))
            => ~ENABLED Update)

\* next() has returned events and then None
C11_Witness ==
    /\ eos
    /\ mainPc = "loop"
    /\ delivered["tick"] = 1
    /\ delivered["input"] = 1

\* C12: update returns Break exactly when it takes 'q' in Normal mode; 'q' taken in Editing
\* mode is appended to the input buffer and update returns None; no server event and no
\* Tick makes update return Break, in either mode
C12_BreakIffNormalQ ==
    /\ [][ConsumedKey("Normal", Char("q")) => (action' = "Break" /\ mainPc' = "break")]_vars
    /\ [][(action' = "Break" /\ action # "Break") => ConsumedKey("Normal", Char("q"))]_vars
    /\ [][(mainPc' = "break" /\ mainPc # "break") => ConsumedKey("Normal", Char("q"))]_vars
    /\ [][ConsumedKey("Editing", Char("q")) =>
            /\ input' = Append(input, "q")
            /\ input_mode' = "Editing"
            /\ action' = "None"
            /\ mainPc' = "loop"]_vars
    /\ [][(Consumed(Head(queue)) /\ Head(queue).src \in {"net", "tick"}) =>
            (action' # "Break" /\ mainPc' # "break")]_vars

\* a Tick and a server event went by, then 'q' in Normal mode ended the loop
C12_Witness ==
    /\ action = "Break"
    /\ mainPc = "break"
    /\ input_mode = "Normal"
    /\ delivered = [p \in Producers |-> 1]

\* C13: the consumer waits only in next(): while the loop runs, an event waiting in the
\* queue can be taken by update, whatever send-message request or author lookup is still
\* outstanding
C13_SuspendsOnlyInNext ==
    (~ConsumerStopped /\ queue # <<>>) => ENABLED Update

\* C14 as stated: every iteration of the tick task sleeps tick_rate and then pushes Tick,
\* so each Tick pushed has a completed sleep of its own before it (none is pushed before
\* the first period has elapsed), with exactly one sleep between consecutive pushes
C14_SleepThenPush ==
    /\ pushed["tick"] <= slept
    /\ slept <= pushed["tick"] + 1

\* C14: every iteration of the tick task pushes Tick and then sleeps tick_rate: the first
\* Tick is pushed before any sleep, and between two consecutive pushes there is exactly
\* one sleep
C14_PushThenSleep ==
    /\ [](slept <= pushed["tick"] /\ pushed["tick"] <= slept + 1)
    /\ [](tickPc = "sleep" => pushed["tick"] = slept + 1)
    /\ [](tickPc = "send" => pushed["tick"] = slept)
    /\ [][pushed'["tick"] # pushed["tick"] =>
            /\ pushed'["tick"] = pushed["tick"] + 1
            /\ pushed["tick"] = slept
            /\ slept' = slept
            /\ tickPc = "send"
            /\ tickPc' = "sleep"]_vars
    /\ [][slept' # slept =>
            /\ slept' = slept + 1
            /\ pushed' = pushed
            /\ tickPc = "sleep"
            /\ tickPc' = "send"]_vars

\* two Ticks pushed with one sleep between them, the second sleep still running
C14_Witness ==
    /\ pushed["tick"] = 2
    /\ slept = 1
    /\ tickPc = "sleep"

\* C15: when the author lookup for a Message on the current channel fails, update still
\* returns (Action::None), the process does not abort and the loop goes on to later events
C15_LookupFailureRecovers ==
    [][(mainPc = "resolve_await" /\ mainPc' # mainPc) =>
          (mainPc' = "loop" /\ action' = "None")]_vars

\* the requests AppState::new makes when nothing fails, as far as the answers so far
\* determine them: the target channel, its server, the server's channels in listed order
FetchPlan ==
    <<FetchChannel(startup.open_at)>>
    \o (IF startup.current_channel = None \/ startup.current_channel[2].server = None
           THEN <<>>
           ELSE <<FetchServer(startup.current_channel[2].server[2])>>)
    \o (IF startup.server = None
           THEN <<>>
           ELSE [i \in 1..Len(startup.server[2].channels) |->
                    FetchChannel(startup.server[2].channels[i])])

\* AppState::new has produced no state
NoAppState ==
    /\ input = NoState
    /\ input_mode = NoState
    /\ messages = NoState
    /\ server_list = NoState
    /\ current_channel = NoState
    /\ server = NoState
    /\ server_channels = NoState

\* C16: AppState::new fetches the target channel, then its server, then the channels the
\* server lists, one at a time in listed order; a failed fetch is the last one made, the
\* error is returned there and no state is produced; on Ok server_channels has one entry
\* per listed channel in the same order, the mode is Normal, the input buffer and the
\* message log are empty and the server list is None
C16_StartupAllOrNothing ==
    /\ [](LET n == Len(startup.fetches) IN
            /\ n <= Len(FetchPlan)
            /\ \A i \in 1..n : startup.fetches[i].req = FetchPlan[i]
            /\ \A i \in 1..n : ~startup.fetches[i].ok => (i = n /\ startup.pc = "err")
            /\ startup.pc = "err" => (n > 0 /\ ~startup.fetches[n].ok))
    /\ [](startup.pc # "ok" => NoAppState)
    /\ [][startup.pc \in {"err", "ok", "todo"} => startup' = startup]_vars
    /\ [](startup.pc = "ok" =>
            /\ startup.fetches = [i \in 1..Len(FetchPlan) |-> Fetched(FetchPlan[i], TRUE)]
            /\ current_channel = Channel(startup.open_at, Some(startup.server[2].id))
            /\ server = startup.server[2]
            /\ Len(server_channels) = Len(server.channels)
            /\ \A i \in 1..Len(server.channels) : server_channels[i].id = server.channels[i]
            /\ input_mode = "Normal"
            /\ input = <<>>
            /\ messages = <<>>
            /\ server_list = None)

\* Ok for a server that lists c2, c1, c2
C16_Witness ==
    /\ startup.pc = "ok"
    /\ server.channels = <<"c2", "c1", "c2">>
    /\ Len(server_channels) = 3
    /\ input_mode = "Normal"

\* C17: Esc taken in Editing mode sets the mode to Normal and keeps the input buffer; no
\* step made in Normal mode changes the buffer, and 'e' re-enters Editing with the
\* buffer as it was left
C17_EscKeepsBuffer ==
    /\ [][ConsumedKey("Editing", Esc) =>
            (input_mode' = "Normal" /\ input' = input /\ action' = "None")]_vars
    /\ [][input_mode = "Normal" => input' = input]_vars
    /\ [][ConsumedKey("Normal", Char("e")) =>
            (input_mode' = "Editing" /\ input' = input)]_vars

\* 'e', 'q', Esc, a Tick and a key in Normal mode, then 'e' again: the buffer still
\* holds "q"
C17_Witness ==
    /\ input_mode = "Editing"
    /\ input = <<"q">>
    /\ typed = Some(<<Char("q"), Esc>>)
    /\ delivered["input"] = 4
    /\ delivered["tick"] = 1

\* the reference for one key taken in Editing mode: Enter empties the buffer, another
\* character is appended, Backspace removes the last character if there is one, any
\* other key changes nothing
RefKey(buf, k) ==
    IF k = Char("\n") THEN <<>>
    ELSE IF k[1] = "Char" THEN buf \o <<k[2]>>
    ELSE IF k = Backspace THEN [i \in 1..(IF buf = <<>> THEN 0 ELSE Len(buf) - 1) |-> buf[i]]
    ELSE buf

\* the reference fold over the keys taken in Editing mode, from the empty buffer
RECURSIVE EditFold(_)
EditFold(keys) ==
    IF keys = <<>>
       THEN <<>>
       ELSE RefKey(EditFold(SubSeq(keys, 1, Len(keys) - 1)), keys[Len(keys)])

\* C18: the input buffer is the reference fold over the keys taken in Editing mode so
\* far; a character other than Enter and Backspace issue no send request and leave the
\* mode Editing
C18_BufferIsFold ==
    /\ [](typed # None => input = EditFold(typed[2]))
    /\ [][\A k \in Keys \ {Char("\n"), Esc, Left} :
            ConsumedKey("Editing", k) =>
               (sent' = sent /\ input_mode' = "Editing" /\ mainPc' = "loop")]_vars

\* 'q', 'e', Backspace and Enter typed in Editing mode: "q" was sent, the buffer is empty
C18_Witness ==
    /\ typed = Some(<<Char("q"), Char("e"), Backspace, Char("\n")>>)
    /\ sent = <<[channel |-> current_channel.id, content |-> <<"q">>]>>
    /\ input = <<>>
    /\ input_mode = "Editing"

\* C19: in either mode, update taking a Tick or a server event other than Message and
\* Ready leaves mode, input buffer, message log, server list and channel context as they
\* were, issues no request and returns None
C19_TickAndOtherEventsIgnored ==
    [][(/\ Consumed(Head(queue))
        /\ \/ Head(queue).src = "tick"
           \/ (Head(queue).src = "net" /\ Head(queue).ev.type \notin {"Message", "Ready"}))
       => /\ UNCHANGED appVars
          /\ sent' = sent
          /\ pending' = pending
          /\ action' = "None"
          /\ mainPc' = "loop"]_vars

\* a Tick and a Pong were taken in Editing mode
C19_Witness ==
    /\ input_mode = "Editing"
    /\ delivered = [p \in Producers |-> 1]
    /\ cache = {PongEvent}
    /\ mainPc = "loop"
    /\ queue = <<>>

\* main_impl is in its render/update loop
LoopRunning == mainPc \in {"loop", "send_await", "resolve_await"}

\* this step is update getting None from next() for the first time
EndOfStreamSeen == ~eos /\ eos'

\* C20 as stated: at end of stream update returns None and changes nothing; the loop is
\* left only by update taking 'q' in Normal mode, and main calls abort_tasks only after
\* that exit
C20_LoopExitsOnlyOnQ ==
    /\ [][EndOfStreamSeen =>
            (action' = "None" /\ mainPc' = "loop" /\ UNCHANGED <<appVars, pending, sent>>)]_vars
    /\ [][(LoopRunning /\ ~LoopRunning') => ConsumedKey("Normal", Char("q"))]_vars
    /\ [][(mainPc' = "aborted" /\ mainPc # "aborted") => mainPc = "break"]_vars

\* C20: at end of stream update returns None and changes nothing, so the loop goes on;
\* update ends the loop only by taking 'q' in Normal mode, the other ways out are an
\* error of terminal.draw and the panic of a failed author lookup, and main calls
\* abort_tasks only after the exit on 'q'
C20_EndOfStreamContinues ==
    /\ [][EndOfStreamSeen =>
            (action' = "None" /\ mainPc' = "loop" /\ UNCHANGED <<appVars, pending, sent>>)]_vars
    /\ [](eos => mainPc \in {"loop", "failed"})
    /\ [][(LoopRunning /\ ~LoopRunning') =>
            \/ (ConsumedKey("Normal", Char("q")) /\ mainPc' = "break")
            \/ (mainPc = "loop" /\ mainPc' = "failed")
            \/ (mainPc = "resolve_await" /\ mainPc' = "panicked")]_vars
    /\ [][(mainPc' = "break" /\ mainPc # "break") => ConsumedKey("Normal", Char("q"))]_vars
    /\ [][(mainPc' = "aborted" /\ mainPc # "aborted") => mainPc = "break"]_vars

\* update has taken 'e', then got None from next(): the loop goes on, still in Editing
C20_Witness ==
    /\ eos
    /\ mainPc = "loop"
    /\ action = "None"
    /\ input_mode = "Editing"
    /\ aborted

====
